---- MODULE Spec2Model ----
(***************************************************************************)
(* django-chunked-upload: the chunk-offset reconciliation protocol.        *)
(*                                                                         *)
(* State: the record store (ChunkedUpload rows keyed by upload_id), the    *)
(* storage (backing files keyed by the upload they were allocated for),    *)
(* the clock, and for every request worker the request it serves, the      *)
(* model instance it holds in memory, and the response it returned.        *)
(*                                                                         *)
(* Spec      requests are served one at a time (each view's post() is one  *)
(*           action).                                                      *)
(* SpecConc  two workers serve overlapping requests; every access to the   *)
(*           record store or the storage is a step of its own.             *)
(* SpecLimit requests served one at a time, max_bytes set.                 *)
(* SpecSite  two users, delete() and the delete_expired_uploads command.   *)
(* SpecRetry a client that sends its next chunk after reading the answer.  *)
(* SpecCleaning                                                            *)
(*           two uploads exist; the command runs with --interactive, one   *)
(*           answer per step.                                              *)
(* SpecRace  the command runs while requests are being handled.            *)
(***************************************************************************)
EXTENDS Integers, Sequences, FiniteSets, TLC

\* ------------------------------------------------------------------ bounds
MaxTime == 1            \* the clock runs 0..MaxTime
MaxSteps == 3           \* requests, external writes, deletions and sweeps in one behaviour

\* ------------------------------------------------------- program constants
UPLOADING == "UPLOADING"
COMPLETE == "COMPLETE"
EXPIRATION_DELTA == 1
HTTP_200_OK == 200
HTTP_400_BAD_REQUEST == 400
HTTP_403_FORBIDDEN == 403
HTTP_404_NOT_FOUND == 404
HTTP_410_GONE == 410

\* ------------------------------------------------------------------ values
Null == <<>>
Some(v) == <<v>>
Get(o) == o[1]

Procs == {1, 2}
Bytes == {"a", "b"}
ExternalBytes == {"x"}
Users == {"alice", "bob"}
\* The user whose uploads Spec and SpecConc follow.
Uploaders == {"alice"}
Anonymous == "anonymous"
Filenames == {"initial-name.txt"}
LaterFilenames == {"ignored-name.txt"}
\* generate_upload_id() returns 1, 2, ...: a request generates at most one id
UploadIds == 1..(MaxSteps + 1)

RECURSIVE SeqsUpTo(_, _)
SeqsUpTo(S, n) ==
    IF n = 0 THEN {<<>>}
    ELSE LET shorter == SeqsUpTo(S, n - 1)
         IN shorter \cup {Append(s, x) : s \in shorter, x \in S}

\* Chunk payloads: empty, or one byte.
Payloads == SeqsUpTo(Bytes, 1)

\* The numbers a Content-Range header carries.
RangeNumbers == 0..2

\* Content-Range headers: absent (<<>>), "bytes s-e/t" (<<s, e, t>>), and a
\* header the pattern does not match ("bytes s-e", <<s, e>>).
ContentRanges ==
    {Null, <<0, 0>>}
        \cup {<<s, e, t>> : s \in RangeNumbers, e \in RangeNumbers, t \in RangeNumbers}


\* expected_size as the POST field's text.
DigitChars == <<"0", "1", "2", "3", "4", "5", "6", "7", "8", "9">>
ExpectedSizes ==
    {<<>>, <<"x">>, <<"0", "1">>, <<"1", "x">>}
        \cup {<<DigitChars[n + 1]>> : n \in 0..3}

Chunks == {Some([name |-> f, data |-> d]) : f \in Filenames, d \in Payloads}

ChunkRequestsOf(users, ids, chunks, ranges) ==
    [view : {"upload"},
     user : users,
     upload_id : {Null} \cup {Some(u) : u \in ids},
     chunk : chunks,
     content_range : ranges,
     expected_size : {<<>>}]

\* Requests to ChunkedUploadView: an authenticated user's chunk under every
\* header; requests without a chunk and unauthenticated ones carry no header.
ChunkRequests(ids) ==
    ChunkRequestsOf(Uploaders, ids, Chunks, ContentRanges)
        \cup ChunkRequestsOf(Uploaders, ids, {Null}, {Null})
        \cup ChunkRequestsOf({Anonymous}, ids, Chunks \cup {Null}, {Null})

CompleteRequestsOf(users, ids, sizes) ==
    [view : {"complete"},
     user : users,
     upload_id : {Null} \cup {Some(u) : u \in ids},
     chunk : {Null},
     content_range : {Null},
     expected_size : sizes]

\* Requests to ChunkedUploadCompleteView.
CompleteRequests(ids) ==
    CompleteRequestsOf(Uploaders, ids, ExpectedSizes)
        \cup CompleteRequestsOf({Anonymous}, ids, {<<>>})

VARIABLES
    db,         \* the record store: upload_id -> persisted row
    files,      \* the storage: upload_id of the owning instance -> file content
    now,        \* timezone.now()
    nextId,     \* the next upload_id generate_upload_id() returns
    config,     \* the view's class attributes (max_bytes, fail_if_no_header) and
                \* the EXPIRATION_DELTA of the delete_expired_uploads module
    pc,         \* where each worker is in its handler
    req,        \* the request a worker serves (or served last)
    obj,        \* the model instance the worker holds in memory
    resp,       \* the response the worker returned
    accepted,   \* history: per upload, the accepted payloads, concatenated in order
    external,   \* history: uploads whose file something else than the views wrote
    stdout,     \* what the delete_expired_uploads command running now has written
    command,    \* the locals of a delete_expired_uploads --interactive run
    steps       \* requests and external writes so far

vars ==
    <<db, files, now, nextId, config, pc, req, obj, resp, accepted, external, stdout,
      command, steps>>

\* ------------------------------------------------------------- responses
Response(status, detail, offset, size, upload_id, size_checked) ==
    [status |-> status, detail |-> detail, offset |-> offset, size |-> size,
     upload_id |-> upload_id, size_checked |-> size_checked]

ChunkedUploadError(status, detail) == Response(status, detail, Null, Null, Null, Null)
ChunkedUploadErrorOffset(status, detail, offset) ==
    Response(status, detail, Some(offset), Null, Null, Null)
ChunkedUploadErrorSize(status, detail, size) ==
    Response(status, detail, Null, Some(size), Null, Null)

\* ---------------------------------------------------------------- models.py
NewInstance(upload_id, filename, user) ==
    [upload_id |-> upload_id, filename |-> filename, offset |-> 0,
     status |-> UPLOADING, created_on |-> Null, completed_on |-> Null,
     user |-> user]

expires_on(o) == Get(o.created_on) + EXPIRATION_DELTA

\* Faulty variant: the upload expires only after its expiry time.
expired_AfterBoundary(o) == expires_on(o) < now

expired(o) == expires_on(o) <= now

\* Faulty variant: the file is not measured.
get_size_IgnoresFile(fs, o) == 0

\* Path(self.file.path).stat().st_size, in the storage fs
get_size(fs, o) == Len(fs[o.upload_id])

\* Faulty variant: the file is opened in mode 'wb'.
AppendedFiles_Truncates(fs, o, chunk) ==
    [x \in DOMAIN fs \cup {o.upload_id} |-> IF x = o.upload_id THEN chunk.data ELSE fs[x]]

\* open(path, 'ab').write(chunk.read()): the storage fs after the append
AppendedFiles(fs, o, chunk) ==
    LET path == o.upload_id
        old == IF path \in DOMAIN fs THEN fs[path] ELSE <<>>
    IN [x \in DOMAIN fs \cup {path} |-> IF x = path THEN old \o chunk.data ELSE fs[x]]

\* Faulty variant: the chunk's name replaces the record's filename.
append_chunk_Renames(o, chunk) ==
    [o EXCEPT !.offset = @ + Len(chunk.data), !.filename = chunk.name]

\* self.offset += chunk.size
append_chunk(o, chunk) == [o EXCEPT !.offset = @ + Len(chunk.data)]

\* Model.save(): every field is written; created_on is set on the first save
SavedRow(o) ==
    IF o.created_on = Null THEN [o EXCEPT !.created_on = Some(now)] ELSE o

SavedDb(d, o) ==
    [x \in DOMAIN d \cup {o.upload_id} |-> IF x = o.upload_id THEN SavedRow(o) ELSE d[x]]

\* ----------------------------------------------------------------- views.py
is_authenticated(user) == user \in Users

\* Faulty variant: the queryset is not filtered by user.
get_queryset_Unscoped(r) == DOMAIN db

get_queryset(r) ==
    {u \in DOMAIN db : is_authenticated(r.user) => db[u].user = Some(r.user)}

check_permissions(r) ==
    IF ~is_authenticated(r.user)
    THEN Some(ChunkedUploadError(HTTP_403_FORBIDDEN,
                                 "Authentication credentials were not provided"))
    ELSE Null

get_extra_attrs(r) == IF is_authenticated(r.user) THEN Some(r.user) ELSE Null

\* Faulty variant: the status is tested before the expiry.
UploadView_is_valid_chunked_upload_StatusFirst(o) ==
    IF o.status = COMPLETE
    THEN Some(ChunkedUploadError(HTTP_400_BAD_REQUEST,
                                 "Upload has already been marked as complete"))
    ELSE IF expired(o)
    THEN Some(ChunkedUploadError(HTTP_410_GONE, "Upload has expired"))
    ELSE Null

\* Faulty variant: the expiry is not tested.
UploadView_is_valid_chunked_upload_IgnoresExpiry(o) ==
    IF o.status = COMPLETE
    THEN Some(ChunkedUploadError(HTTP_400_BAD_REQUEST,
                                 "Upload has already been marked as complete"))
    ELSE Null

UploadView_is_valid_chunked_upload(o) ==
    IF expired(o)
    THEN Some(ChunkedUploadError(HTTP_410_GONE, "Upload has expired"))
    ELSE IF o.status = COMPLETE
    THEN Some(ChunkedUploadError(HTTP_400_BAD_REQUEST,
                                 "Upload has already been marked as complete"))
    ELSE Null

\* content_range_pattern.match: ^bytes (\d+)-(\d+)/(\d+)$
ContentRangeMatch(header) ==
    IF Len(header) = 3
    THEN Some([start |-> header[1], end |-> header[2], total |-> header[3]])
    ELSE Null

\* Faulty variant: without a header the chunk is taken to follow one byte.
RangeOf_ImplicitFromOne(r) ==
    LET match == ContentRangeMatch(r.content_range)
        size == Len(Get(r.chunk).data)
    IN IF match # Null THEN Get(match)
       ELSE [start |-> 1, end |-> size, total |-> size + 1]

\* start, end, total as _post computes them (lines 207-227)
RangeOf(r) ==
    LET match == ContentRangeMatch(r.content_range)
        size == Len(Get(r.chunk).data)
    IN IF match # Null THEN Get(match)
       ELSE [start |-> 0, end |-> size - 1, total |-> size]

EndAboveTotal(end, total) == end > total

\* Faulty variant: a chunk behind the record's offset passes the offset check.
OffsetMismatch_OnlyAhead(o, start) == o.offset < start

\* line 243
OffsetMismatch(o, start) == o.offset # start

\* The checks of _post between resolving the record and reading the file size
\* (lines 207-253): the error raised, or Null.
UploadView_validate(o, r) ==
    LET match == ContentRangeMatch(r.content_range)
        rng == RangeOf(r)
        chunk_size == rng.end - rng.start + 1
    IN IF match # Null /\ rng.start > rng.end
       THEN Some(ChunkedUploadError(HTTP_400_BAD_REQUEST,
                                    "The content range start must be lower than end"))
       ELSE IF match = Null /\ config.fail_if_no_header
       THEN Some(ChunkedUploadError(HTTP_400_BAD_REQUEST, "Error in request headers"))
       ELSE IF EndAboveTotal(rng.end, rng.total)
       THEN Some(ChunkedUploadError(HTTP_400_BAD_REQUEST,
                                    "End offset must be lower than total size"))
       ELSE IF config.max_bytes # Null /\ rng.total > Get(config.max_bytes)
       THEN Some(ChunkedUploadError(HTTP_400_BAD_REQUEST,
                                    "Size of file exceeds the limit"))
       ELSE IF OffsetMismatch(o, rng.start)
       THEN Some(ChunkedUploadErrorOffset(HTTP_400_BAD_REQUEST,
                                          "Offsets do not match", o.offset))
       ELSE IF Len(Get(r.chunk).data) # chunk_size
       THEN Some(ChunkedUploadError(HTTP_400_BAD_REQUEST,
                                    "File size doesn't match headers"))
       ELSE Null

\* Faulty variant: the answer to an accepted chunk carries status 400.
UploadView_get_response_data_AsError(o) ==
    Response(HTTP_400_BAD_REQUEST, "", Some(o.offset), Null, Some(o.upload_id), Null)

UploadView_get_response_data(o) ==
    Response(HTTP_200_OK, "", Some(o.offset), Null, Some(o.upload_id), Null)

\* create_chunked_upload: a new instance, and its empty file in the storage fs
create_chunked_upload(upload_id, filename, user) == NewInstance(upload_id, filename, user)

CreatedFiles(fs, upload_id) ==
    [x \in DOMAIN fs \cup {upload_id} |-> IF x = upload_id THEN <<>> ELSE fs[x]]

\* _post, lines 187-205: permissions, the chunk, and the record the request
\* is about. error is the error raised, obj the instance, files and nextId the
\* storage and the id generator afterwards.
UploadView_resolve(r) ==
    LET unchanged(error, o) ==
            [error |-> error, obj |-> o, files |-> files, nextId |-> nextId]
    IN IF check_permissions(r) # Null THEN unchanged(check_permissions(r), Null)
       ELSE IF r.chunk = Null
       THEN unchanged(Some(ChunkedUploadError(HTTP_400_BAD_REQUEST,
                                              "No chunk file was submitted")), Null)
       ELSE IF r.upload_id # Null
       THEN IF Get(r.upload_id) \notin get_queryset(r)
            THEN unchanged(Some(ChunkedUploadError(HTTP_404_NOT_FOUND, "Not Found")), Null)
            ELSE unchanged(UploadView_is_valid_chunked_upload(db[Get(r.upload_id)]),
                           Some(db[Get(r.upload_id)]))
       ELSE [error |-> Null,
             obj |-> Some(create_chunked_upload(nextId, Get(r.chunk).name,
                                                get_extra_attrs(r))),
             files |-> CreatedFiles(files, nextId),
             nextId |-> nextId + 1]

\* ------------------------------------------------- ChunkedUploadCompleteView
\* The error is built and returned to the caller, which ignores it: nothing is
\* raised (lines 290-294, 320).
CompleteView_is_valid_chunked_upload(o) ==
    LET returned == IF o.status = COMPLETE
                    THEN Some(ChunkedUploadError(HTTP_400_BAD_REQUEST,
                              "Upload has already been marked as complete"))
                    ELSE Null
    IN Null

IsDigit(c) == \E n \in 1..Len(DigitChars) : DigitChars[n] = c
DigitValue(c) == (CHOOSE n \in 1..Len(DigitChars) : DigitChars[n] = c) - 1

RECURSIVE ParseDigits(_)
ParseDigits(s) ==
    IF s = <<>> THEN 0
    ELSE 10 * ParseDigits(SubSeq(s, 1, Len(s) - 1)) + DigitValue(s[Len(s)])

\* int(expected_size): Null stands for ValueError
ParseInt(s) ==
    IF s # <<>> /\ \A i \in 1..Len(s) : IsDigit(s[i]) THEN Some(ParseDigits(s)) ELSE Null

\* _post, lines 305-330: everything before the file is measured
CompleteView_resolve(r) ==
    IF check_permissions(r) # Null THEN [error |-> check_permissions(r), obj |-> Null]
    ELSE IF r.upload_id = Null
    THEN [error |-> Some(ChunkedUploadError(HTTP_400_BAD_REQUEST,
                                            "The upload_id is required")),
          obj |-> Null]
    ELSE IF Get(r.upload_id) \notin get_queryset(r)
    THEN [error |-> Some(ChunkedUploadError(HTTP_404_NOT_FOUND, "Not Found")), obj |-> Null]
    ELSE IF CompleteView_is_valid_chunked_upload(db[Get(r.upload_id)]) # Null
    THEN [error |-> CompleteView_is_valid_chunked_upload(db[Get(r.upload_id)]),
          obj |-> Some(db[Get(r.upload_id)])]
    ELSE IF r.expected_size # <<>> /\ ParseInt(r.expected_size) = Null
    THEN [error |-> Some(ChunkedUploadError(HTTP_400_BAD_REQUEST,
                         "Invalid value for expected_size, an integer is required")),
          obj |-> Some(db[Get(r.upload_id)])]
    ELSE [error |-> Null, obj |-> Some(db[Get(r.upload_id)])]

\* Faulty variant: expected_size is compared with the record's offset.
CompleteView_size_error_UsesOffset(fs, o, r) ==
    IF r.expected_size # <<>> /\ o.offset # Get(ParseInt(r.expected_size))
    THEN Some(ChunkedUploadErrorSize(HTTP_400_BAD_REQUEST,
                                     "Expected file size does not match", o.offset))
    ELSE Null

\* lines 331-337
CompleteView_size_error(fs, o, r) ==
    IF r.expected_size # <<>> /\ get_size(fs, o) # Get(ParseInt(r.expected_size))
    THEN Some(ChunkedUploadErrorSize(HTTP_400_BAD_REQUEST,
                                     "Expected file size does not match", get_size(fs, o)))
    ELSE Null

\* lines 339-340
Completed(o) == [o EXCEPT !.status = COMPLETE, !.completed_on = Some(now)]

\* Faulty variant: size_checked is reported true whatever the request.
CompleteView_get_response_data_AlwaysChecked(r) ==
    Response(HTTP_200_OK, "", Null, Null, Null, Some(TRUE))

CompleteView_get_response_data(r) ==
    Response(HTTP_200_OK, "", Null, Null, Null, Some(r.expected_size # <<>>))

\* Faulty variant: the error carries the record's offset, not the measured size.
UploadView_conflict_ReportsOffset(fs, o, r) ==
    IF get_size(fs, o) # RangeOf(r).start
    THEN Some(ChunkedUploadErrorSize(HTTP_400_BAD_REQUEST,
              "File is currently being written by another request", o.offset))
    ELSE Null

\* lines 257-263: the file is measured against the declared start
UploadView_conflict(fs, o, r) ==
    IF get_size(fs, o) # RangeOf(r).start
    THEN Some(ChunkedUploadErrorSize(HTTP_400_BAD_REQUEST,
              "File is currently being written by another request", get_size(fs, o)))
    ELSE Null

\* ------------------------------------------------------------------- state
EmptyFcn == [x \in {} |-> Null]

DefaultConfig ==
    [max_bytes |-> Null, fail_if_no_header |-> FALSE, command_delta |-> EXPIRATION_DELTA]

\* A deployment that sets max_bytes, with and without fail_if_no_header.
LimitedConfigs ==
    {[DefaultConfig EXCEPT !.max_bytes = Some(m), !.fail_if_no_header = f] :
        m \in {0, 1}, f \in BOOLEAN}

InitWith(configs) ==
    /\ db = EmptyFcn
    /\ files = EmptyFcn
    /\ now = 0
    /\ nextId = 1
    /\ config \in configs
    /\ pc = [p \in Procs |-> "idle"]
    /\ req = [p \in Procs |-> Null]
    /\ obj = [p \in Procs |-> Null]
    /\ resp = [p \in Procs |-> Null]
    /\ accepted = [u \in UploadIds |-> <<>>]
    /\ external = {}
    /\ stdout = Null
    /\ command = Null
    /\ steps = 0

Init == InitWith({DefaultConfig})

InitLimit == InitWith(LimitedConfigs)

Quiescent == \A p \in Procs : pc[p] = "idle"

\* The upload ids a client sends: those generated so far, and one that no
\* upload has (every id never generated is looked up the same way).
KnownIds == 1..nextId

\* A worker takes request r.
Takes(p, r) ==
    /\ pc[p] = "idle"
    /\ steps < MaxSteps
    /\ steps' = steps + 1
    /\ req' = [req EXCEPT ![p] = Some(r)]

\* The handler ends with response rsp, the worker holding instance o.
Returns(p, o, rsp) ==
    /\ pc' = [pc EXCEPT ![p] = "done"]
    /\ obj' = [obj EXCEPT ![p] = o]
    /\ resp' = [resp EXCEPT ![p] = Some(rsp)]

Accepted(o, chunk) == [accepted EXCEPT ![o.upload_id] = @ \o chunk.data]

\* ------------------------------------------- requests served one at a time
\* ChunkedUploadView.post, whole.
UploadView_post(p, r) ==
    /\ Takes(p, r)
    /\ LET res == UploadView_resolve(r)
           err == IF res.error # Null THEN res.error
                  ELSE UploadView_validate(Get(res.obj), r)
       IN /\ nextId' = res.nextId
          /\ IF err # Null
             THEN /\ Returns(p, res.obj, Get(err))
                  /\ files' = res.files
                  /\ UNCHANGED <<db, accepted>>
             ELSE LET o == Get(res.obj)
                      chunk == Get(r.chunk)
                      conflict == UploadView_conflict(res.files, o, r)
                      saved == SavedRow(append_chunk(o, chunk))
                  IN IF conflict # Null
                     THEN /\ Returns(p, res.obj, Get(conflict))
                          /\ files' = res.files
                          /\ UNCHANGED <<db, accepted>>
                     ELSE /\ files' = AppendedFiles(res.files, o, chunk)
                          /\ db' = SavedDb(db, append_chunk(o, chunk))
                          /\ accepted' = Accepted(o, chunk)
                          /\ Returns(p, Some(saved), UploadView_get_response_data(saved))
    /\ UNCHANGED <<now, config, external, stdout, command>>

\* ChunkedUploadCompleteView.post, whole.
CompleteView_post(p, r) ==
    /\ Takes(p, r)
    /\ LET res == CompleteView_resolve(r)
           err == IF res.error # Null THEN res.error
                  ELSE CompleteView_size_error(files, Get(res.obj), r)
       IN IF err # Null
          THEN /\ Returns(p, res.obj, Get(err))
               /\ UNCHANGED db
          ELSE /\ db' = SavedDb(db, Completed(Get(res.obj)))
               /\ Returns(p, Some(SavedRow(Completed(Get(res.obj)))),
                          CompleteView_get_response_data(r))
    /\ UNCHANGED <<files, now, nextId, config, accepted, external, stdout, command>>

\* The response is sent; the worker is free again.
Respond(p) ==
    /\ pc[p] = "done"
    /\ pc' = [pc EXCEPT ![p] = "idle"]
    /\ req' = [req EXCEPT ![p] = Null]
    /\ obj' = [obj EXCEPT ![p] = Null]
    /\ resp' = [resp EXCEPT ![p] = Null]
    /\ UNCHANGED <<db, files, now, nextId, config, accepted, external, stdout, command, steps>>

\* Time passes.
Tick ==
    /\ now < MaxTime
    /\ now' = now + 1
    /\ UNCHANGED <<db, files, nextId, config, pc, req, obj, resp, accepted, external, stdout, command, steps>>

\* Something other than the views appends a byte to the file of an upload
\* (tests/test.py, lines 189-190).
ExternalWrite(u, b) ==
    /\ u \in DOMAIN db
    /\ u \in DOMAIN files
    /\ steps < MaxSteps
    /\ steps' = steps + 1
    /\ files' = [files EXCEPT ![u] = Append(@, b)]
    /\ external' = external \cup {u}
    /\ UNCHANGED <<db, now, nextId, config, pc, req, obj, resp, accepted, stdout, command>>

\* A request goes to the first free worker.
Free(p) == pc[p] = "idle" /\ \A q \in Procs : q < p => pc[q] # "idle"

\* The requests are served one after the other; the clock and the external
\* writer move between requests.
Next ==
    \/ \E p \in Procs :
           Quiescent /\ Free(p) /\ \E r \in ChunkRequests(KnownIds) : UploadView_post(p, r)
    \/ \E p \in Procs :
           Quiescent /\ Free(p) /\ \E r \in CompleteRequests(KnownIds) : CompleteView_post(p, r)
    \/ \E p \in Procs : Respond(p)
    \/ Quiescent /\ Tick
    \/ Quiescent /\ \E u \in UploadIds, b \in ExternalBytes : ExternalWrite(u, b)

Spec == Init /\ [][Next]_vars

\* Requests against a deployment with a size limit: as in Spec, with chunk
\* payloads of at most one byte, "a".
LimitChunks == {Some([name |-> f, data |-> d]) : f \in Filenames, d \in {<<>>, <<"a">>}}

LimitChunkRequests(ids) ==
    ChunkRequestsOf(Uploaders, ids, LimitChunks, ContentRanges)
        \cup ChunkRequestsOf(Uploaders, ids, {Null}, {Null})
        \cup ChunkRequestsOf({Anonymous}, ids, LimitChunks \cup {Null}, {Null})

LimitCompleteRequests(ids) ==
    CompleteRequestsOf(Uploaders, ids, {<<>>, <<"1">>})
        \cup CompleteRequestsOf({Anonymous}, ids, {<<>>})

NextLimit ==
    \/ \E p \in Procs :
           Quiescent /\ Free(p) /\ \E r \in LimitChunkRequests(KnownIds) : UploadView_post(p, r)
    \/ \E p \in Procs :
           Quiescent /\ Free(p) /\ \E r \in LimitCompleteRequests(KnownIds) : CompleteView_post(p, r)
    \/ \E p \in Procs : Respond(p)
    \/ Quiescent /\ Tick
    \/ Quiescent /\ \E u \in UploadIds, b \in ExternalBytes : ExternalWrite(u, b)

SpecLimit == InitLimit /\ [][NextLimit]_vars

\* ------------------------------------------------------ overlapping requests
\* ChunkedUploadView._post up to line 255: the record is read (or the instance
\* and its empty file created) and the request validated against it.
UploadView_begin(p, r) ==
    /\ Takes(p, r)
    /\ LET res == UploadView_resolve(r)
           err == IF res.error # Null THEN res.error
                  ELSE UploadView_validate(Get(res.obj), r)
       IN /\ nextId' = res.nextId
          /\ files' = res.files
          /\ IF err # Null
             THEN Returns(p, res.obj, Get(err))
             ELSE /\ pc' = [pc EXCEPT ![p] = "get_size"]
                  /\ obj' = [obj EXCEPT ![p] = res.obj]
                  /\ UNCHANGED resp
    /\ UNCHANGED <<db, now, config, accepted, external, stdout, command>>

\* lines 257-263: the file is measured.
UploadView_get_size(p) ==
    /\ pc[p] = "get_size"
    /\ LET conflict == UploadView_conflict(files, Get(obj[p]), Get(req[p]))
       IN IF conflict # Null
          THEN Returns(p, obj[p], Get(conflict))
          ELSE /\ pc' = [pc EXCEPT ![p] = "append"]
               /\ UNCHANGED <<obj, resp>>
    /\ UNCHANGED <<db, files, now, nextId, config, req, accepted, external, stdout, command, steps>>

\* line 265: append_chunk(chunk, save=False).
UploadView_append(p) ==
    /\ pc[p] = "append"
    /\ files' = AppendedFiles(files, Get(obj[p]), Get(Get(req[p]).chunk))
    /\ obj' = [obj EXCEPT ![p] = Some(append_chunk(Get(obj[p]), Get(Get(req[p]).chunk)))]
    /\ pc' = [pc EXCEPT ![p] = "save"]
    /\ UNCHANGED <<db, now, nextId, config, req, resp, accepted, external, stdout, command, steps>>

\* lines 267-272: the instance is saved and the response returned.
UploadView_save(p) ==
    /\ pc[p] = "save"
    /\ db' = SavedDb(db, Get(obj[p]))
    /\ accepted' = Accepted(Get(obj[p]), Get(Get(req[p]).chunk))
    /\ Returns(p, Some(SavedRow(Get(obj[p]))),
               UploadView_get_response_data(SavedRow(Get(obj[p]))))
    /\ UNCHANGED <<files, now, nextId, config, req, external, stdout, command, steps>>

\* ChunkedUploadCompleteView._post up to line 330: the record is read.
CompleteView_begin(p, r) ==
    /\ Takes(p, r)
    /\ LET res == CompleteView_resolve(r)
       IN IF res.error # Null
          THEN Returns(p, res.obj, Get(res.error))
          ELSE /\ pc' = [pc EXCEPT ![p] =
                            IF r.expected_size # <<>> THEN "c_get_size" ELSE "c_save"]
               /\ obj' = [obj EXCEPT ![p] = res.obj]
               /\ UNCHANGED resp
    /\ UNCHANGED <<db, files, now, nextId, config, accepted, external, stdout, command>>

\* lines 331-337: the file is measured against expected_size.
CompleteView_get_size(p) ==
    /\ pc[p] = "c_get_size"
    /\ LET err == CompleteView_size_error(files, Get(obj[p]), Get(req[p]))
       IN IF err # Null
          THEN Returns(p, obj[p], Get(err))
          ELSE /\ pc' = [pc EXCEPT ![p] = "c_save"]
               /\ UNCHANGED <<obj, resp>>
    /\ UNCHANGED <<db, files, now, nextId, config, req, accepted, external, stdout, command, steps>>

\* lines 339-347: the instance is marked, saved, and the response returned.
CompleteView_save(p) ==
    /\ pc[p] = "c_save"
    /\ db' = SavedDb(db, Completed(Get(obj[p])))
    /\ Returns(p, Some(SavedRow(Completed(Get(obj[p])))),
               CompleteView_get_response_data(Get(req[p])))
    /\ UNCHANGED <<files, now, nextId, config, req, accepted, external, stdout, command, steps>>

\* Requests of overlapping clients: one user, chunks of one byte, sent without
\* a header or as "bytes s-s/2"; completion without and with an expected_size.
ConcChunks == {Some([name |-> f, data |-> <<b>>]) : f \in Filenames, b \in Bytes}

ConcContentRanges == {Null} \cup {<<n, n, 2>> : n \in RangeNumbers}

ConcChunkRequests(ids) == ChunkRequestsOf(Uploaders, ids, ConcChunks, ConcContentRanges)

ConcCompleteRequests(ids) == CompleteRequestsOf(Uploaders, ids, {<<>>, <<"1">>})

NextConc ==
    \/ \E p \in Procs : Free(p) /\ \E r \in ConcChunkRequests(KnownIds) : UploadView_begin(p, r)
    \/ \E p \in Procs : UploadView_get_size(p)
    \/ \E p \in Procs : UploadView_append(p)
    \/ \E p \in Procs : UploadView_save(p)
    \/ \E p \in Procs : Free(p) /\ \E r \in ConcCompleteRequests(KnownIds) : CompleteView_begin(p, r)
    \/ \E p \in Procs : CompleteView_get_size(p)
    \/ \E p \in Procs : CompleteView_save(p)
    \/ \E p \in Procs : Respond(p)
    \/ Tick

SpecConc == Init /\ [][NextConc]_vars

\* ------------------------------------------------- deletion and the sweep
\* super().delete(): the row of upload u is removed
DeletedDb(d, u) == [x \in DOMAIN d \ {u} |-> d[x]]

\* Faulty variant: the file is left in the storage.
DeletedFiles_KeepsFile(fs, u, delete_file) == fs

\* storage.delete(path) when the instance has a file and delete_file is set
DeletedFiles(fs, u, delete_file) ==
    IF u \in DOMAIN fs /\ delete_file THEN [x \in DOMAIN fs \ {u} |-> fs[x]] ELSE fs

\* AbstractChunkedUpload.delete(delete_file) on the persisted upload u.
delete(u, delete_file) ==
    /\ u \in DOMAIN db
    /\ steps < MaxSteps
    /\ steps' = steps + 1
    /\ db' = DeletedDb(db, u)
    /\ files' = DeletedFiles(files, u, delete_file)
    /\ UNCHANGED <<now, nextId, config, pc, req, obj, resp, accepted, external, stdout, command>>

\* Faulty variant: records created exactly EXPIRATION_DELTA ago are selected.
SweepSelected_Inclusive(d, delta) ==
    {u \in DOMAIN d : Get(d[u].created_on) <= now - delta}

\* qs.filter(created_on__lt=(timezone.now() - EXPIRATION_DELTA))
SweepSelected(d, delta) ==
    {u \in DOMAIN d : Get(d[u].created_on) < now - delta}

\* The loop of handle() without --interactive, over the selected ids in
\* ascending order: every record is counted, listed and deleted.
RECURSIVE DeleteEach(_, _, _, _)
DeleteEach(d, fs, qs, out) ==
    IF qs = {} THEN [db |-> d, files |-> fs, stdout |-> out]
    ELSE LET u == CHOOSE x \in qs : \A y \in qs : x <= y
         IN DeleteEach(DeletedDb(d, u), DeletedFiles(fs, u, TRUE), qs \ {u},
                       [out EXCEPT !.count[d[u].status] = @ + 1,
                                   !.deleted = Append(@, u)])

\* Command.handle, interactive = False.
handle ==
    /\ stdout = Null
    /\ steps < MaxSteps
    /\ steps' = steps + 1
    /\ LET swept == DeleteEach(db, files, SweepSelected(db, config.command_delta),
                               [count |-> [st \in {UPLOADING, COMPLETE} |-> 0],
                                deleted |-> <<>>])
       IN /\ db' = swept.db
          /\ files' = swept.files
          /\ stdout' = Some(swept.stdout)
    /\ UNCHANGED <<now, nextId, config, pc, req, obj, resp, accepted, external, command>>

\* The command's process ends.
CommandExit ==
    /\ stdout # Null
    /\ stdout' = Null
    /\ UNCHANGED <<db, files, now, nextId, config, pc, req, obj, resp, accepted, external,
                   command, steps>>

\* ------------------------------------------------------- a site with two users
\* Chunks of one byte under either file name, sent without a header or as
\* "bytes 1-1/2"; completion without and with an expected_size.
SiteChunks ==
    {Some([name |-> f, data |-> <<"a">>]) : f \in Filenames \cup LaterFilenames}

SiteContentRanges == {Null, <<1, 1, 2>>}

SiteChunkRequests(ids) ==
    ChunkRequestsOf(Users, ids, SiteChunks, SiteContentRanges)
        \cup ChunkRequestsOf({Anonymous}, ids, SiteChunks, {Null})

SiteCompleteRequests(ids) ==
    CompleteRequestsOf(Users \cup {Anonymous}, ids, {<<>>, <<"1">>})

\* The sweep's EXPIRATION_DELTA is the default or near zero (tests/test.py,
\* lines 210-220).
SiteConfigs == {[DefaultConfig EXCEPT !.command_delta = d] : d \in {0, EXPIRATION_DELTA}}

InitSite == InitWith(SiteConfigs)

\* Nothing is in progress: no request and no command.
Idle == Quiescent /\ stdout = Null /\ command = Null

NextSite ==
    \/ \E p \in Procs :
           Idle /\ Free(p) /\ \E r \in SiteChunkRequests(KnownIds) : UploadView_post(p, r)
    \/ \E p \in Procs :
           Idle /\ Free(p) /\ \E r \in SiteCompleteRequests(KnownIds) : CompleteView_post(p, r)
    \/ \E p \in Procs : Respond(p)
    \/ Idle /\ Tick
    \/ Idle /\ handle
    \/ CommandExit
    \/ Idle /\ \E u \in UploadIds, delete_file \in BOOLEAN : delete(u, delete_file)

SpecSite == InitSite /\ [][NextSite]_vars

\* ------------------------------------------- the sweep with --interactive
\* What is typed at the prompt, and str.lower() of it.
Answers == {"y", "n", "Y", "x"}

Lower(a) == IF a = "Y" THEN "y" ELSE a

\* The rows of the queryset in the orders the database may return them: the
\* model declares no ordering and the query has no order_by.
Rows(d, ids) ==
    {q \in [1..Cardinality(ids) -> {d[u] : u \in ids}] :
        \A j, k \in 1..Cardinality(ids) : j # k => q[j] # q[k]}

\* handle(), lines 28-33: the queryset is evaluated; i is the position of the
\* loop in it.
handle_interactive ==
    /\ Idle
    /\ steps < MaxSteps
    /\ steps' = steps + 1
    /\ \E qs \in Rows(db, SweepSelected(db, config.command_delta)) :
         command' = Some([qs |-> qs,
                        i |-> 1,
                        answer |-> Null,
                        count |-> [st \in {UPLOADING, COMPLETE} |-> 0],
                        deleted |-> <<>>])
    /\ UNCHANGED <<db, files, now, nextId, config, pc, req, obj, resp, accepted, external,
                   stdout>>

\* Faulty variant: the record answered "n" is counted and listed.
Skipped_Counted(c) ==
    [c EXCEPT !.i = @ + 1,
              !.count[c.qs[c.i].status] = @ + 1,
              !.deleted = Append(@, c.qs[c.i].upload_id)]

\* line 42: continue
Skipped(c) == [c EXCEPT !.i = @ + 1]

\* lines 44-45
Counted(c) ==
    [c EXCEPT !.i = @ + 1,
              !.count[c.qs[c.i].status] = @ + 1,
              !.deleted = Append(@, c.qs[c.i].upload_id)]

\* lines 36-47: answer a is read at the prompt for the current record.
handle_input(a) ==
    /\ command # Null
    /\ Get(command).i <= Len(Get(command).qs)
    /\ LET c == [Get(command) EXCEPT !.answer = Some(Lower(a))]
           u == c.qs[c.i].upload_id
       IN IF Lower(a) \notin {"y", "n"}
          THEN /\ command' = Some(c)
               /\ UNCHANGED <<db, files>>
          ELSE IF Lower(a) = "n"
          THEN /\ command' = Some(Skipped(c))
               /\ UNCHANGED <<db, files>>
          ELSE /\ command' = Some(Counted(c))
               /\ db' = DeletedDb(db, u)
               /\ files' = DeletedFiles(files, u, TRUE)
    /\ UNCHANGED <<now, nextId, config, pc, req, obj, resp, accepted, external, stdout, steps>>

\* lines 49-51: the loop is over; the summary is written.
handle_end ==
    /\ command # Null
    /\ Get(command).i > Len(Get(command).qs)
    /\ stdout' = Some([count |-> Get(command).count, deleted |-> Get(command).deleted])
    /\ command' = Null
    /\ UNCHANGED <<db, files, now, nextId, config, pc, req, obj, resp, accepted, external,
                   steps>>

\* Two uploads of alice exist, each holding one accepted byte: upload 1 is
\* UPLOADING, upload 2 COMPLETE.
InitCleaning ==
    /\ now = 0
    /\ db = [u \in {1, 2} |->
                LET row == SavedRow(append_chunk(
                               create_chunked_upload(u, "initial-name.txt", Some("alice")),
                               [name |-> "initial-name.txt", data |-> <<"a">>]))
                IN IF u = 1 THEN row ELSE Completed(row)]
    /\ files = [u \in {1, 2} |-> <<"a">>]
    /\ nextId = 3
    /\ config \in SiteConfigs
    /\ pc = [p \in Procs |-> "idle"]
    /\ req = [p \in Procs |-> Null]
    /\ obj = [p \in Procs |-> Null]
    /\ resp = [p \in Procs |-> Null]
    /\ accepted = [u \in 1..(MaxSteps + 3) |-> IF u \in {1, 2} THEN <<"a">> ELSE <<>>]
    /\ external = {}
    /\ stdout = Null
    /\ command = Null
    /\ steps = 0

\* Between two runs of the command alice sends header-less one-byte chunks
\* and completion requests.
CleaningChunkRequests(ids) ==
    ChunkRequestsOf(Uploaders, ids, {Some([name |-> f, data |-> <<"a">>]) : f \in Filenames},
                    {Null})

CleaningCompleteRequests(ids) == CompleteRequestsOf(Uploaders, ids, {<<>>})

NextCleaning ==
    \/ Idle /\ \E r \in CleaningChunkRequests(KnownIds) : UploadView_post(1, r)
    \/ Idle /\ \E r \in CleaningCompleteRequests(KnownIds) : CompleteView_post(1, r)
    \/ Respond(1)
    \/ Idle /\ Tick
    \/ handle_interactive
    \/ \E a \in Answers : handle_input(a)
    \/ handle_end
    \/ CommandExit

SpecCleaning == InitCleaning /\ [][NextCleaning]_vars

\* ------------------------------------------- the sweep during a request
\* The file of the instance worker p holds is in the storage.
FileExists(p) == obj[p] # Null /\ Get(obj[p]).upload_id \in DOMAIN files

\* get_size() on a file that is gone: Path(path).stat() raises
\* FileNotFoundError, which no handler catches; the request fails.
get_size_FileNotFound(p) ==
    /\ pc[p] \in {"get_size", "c_get_size"}
    /\ ~FileExists(p)
    /\ Returns(p, obj[p], ChunkedUploadError(500, "FileNotFoundError"))
    /\ UNCHANGED <<db, files, now, nextId, config, req, accepted, external, stdout, command,
                   steps>>

\* Alice sends header-less one-byte chunks, and completion requests without
\* and with an expected_size.
RaceChunkRequests(ids) ==
    ChunkRequestsOf(Uploaders, ids, {Some([name |-> f, data |-> <<"a">>]) : f \in Filenames},
                    {Null})

RaceCompleteRequests(ids) == CompleteRequestsOf(Uploaders, ids, {<<>>, <<"1">>})

\* The command runs while requests are being handled.
NextRace ==
    \/ \E p \in Procs : Free(p) /\ \E r \in RaceChunkRequests(KnownIds) : UploadView_begin(p, r)
    \/ \E p \in Procs : FileExists(p) /\ UploadView_get_size(p)
    \/ \E p \in Procs : UploadView_append(p)
    \/ \E p \in Procs : UploadView_save(p)
    \/ \E p \in Procs :
           Free(p) /\ \E r \in RaceCompleteRequests(KnownIds) : CompleteView_begin(p, r)
    \/ \E p \in Procs : FileExists(p) /\ CompleteView_get_size(p)
    \/ \E p \in Procs : CompleteView_save(p)
    \/ \E p \in Procs : get_size_FileNotFound(p)
    \/ \E p \in Procs : Respond(p)
    \/ Tick
    \/ handle
    \/ CommandExit

SpecRace == InitCleaning /\ [][NextRace]_vars

\* ------------------------------------------------- a client that retries
\* Worker 1 serves a request; while its answer is still held, worker 2 serves
\* the chunk request the client sends next. Worker 1's answer is always the
\* answer to the request served immediately before worker 2's.
RetryChunks == {Some([name |-> f, data |-> d]) : f \in Filenames, d \in {<<>>, <<"a">>}}

\* Sent without a header, or as "bytes n-n/3".
RetryContentRanges == {Null} \cup {<<n, n, 3>> : n \in RangeNumbers}

RetryChunkRequests(ids) == ChunkRequestsOf(Uploaders, ids, RetryChunks, RetryContentRanges)

RetryCompleteRequests(ids) == CompleteRequestsOf(Uploaders, ids, {<<>>})

NextRetry ==
    \/ Quiescent /\ \E r \in RetryChunkRequests(KnownIds) : UploadView_post(1, r)
    \/ Quiescent /\ \E r \in RetryCompleteRequests(KnownIds) : CompleteView_post(1, r)
    \/ /\ pc[1] = "done"
       /\ pc[2] = "idle"
       /\ \E r \in RetryChunkRequests(KnownIds) : UploadView_post(2, r)
    \/ Respond(1)
    \/ pc[1] = "idle" /\ Respond(2)
    \/ pc[2] = "idle" /\ Tick
    \/ Quiescent /\ \E u \in UploadIds, b \in ExternalBytes : ExternalWrite(u, b)

\* An upload of alice is in progress: its first chunk, one byte, was accepted.
InitRetry ==
    /\ now = 0
    /\ db = [u \in {1} |-> SavedRow(append_chunk(
                 create_chunked_upload(1, "initial-name.txt", Some("alice")),
                 [name |-> "initial-name.txt", data |-> <<"a">>]))]
    /\ files = [u \in {1} |-> <<"a">>]
    /\ nextId = 2
    /\ config = DefaultConfig
    /\ pc = [p \in Procs |-> "idle"]
    /\ req = [p \in Procs |-> Null]
    /\ obj = [p \in Procs |-> Null]
    /\ resp = [p \in Procs |-> Null]
    /\ accepted = [u \in 1..(MaxSteps + 2) |-> IF u = 1 THEN <<"a">> ELSE <<>>]
    /\ external = {}
    /\ stdout = Null
    /\ command = Null
    /\ steps = 0

SpecRetry == InitRetry /\ [][NextRetry]_vars

\* ------------------------------------------------------------------ claims
\* In Spec a handler runs in one step: worker p is idle before it and done
\* after it, req'[p] is the request and resp'[p] the response.
Served(p, view) ==
    /\ pc[p] = "idle"
    /\ pc'[p] = "done"
    /\ Get(req'[p]).view = view

Request(p) == Get(req'[p])
Answer(p) == Get(resp'[p])

\* The request names nothing (a new upload) or an upload its user owns.
NamesOwnUpload(r) ==
    /\ is_authenticated(r.user)
    /\ r.upload_id # Null
    /\ Get(r.upload_id) \in DOMAIN db
    /\ db[Get(r.upload_id)].user = Some(r.user)

StartsUpload(r) == is_authenticated(r.user) /\ r.upload_id = Null

\* The offset of the record a chunk request is checked against.
RecordOffset(r) == IF r.upload_id = Null THEN 0 ELSE db[Get(r.upload_id)].offset

\* No file content changed; a file that appeared is empty.
NothingAppended ==
    /\ \A u \in DOMAIN files : u \in DOMAIN files' /\ files'[u] = files[u]
    /\ \A u \in DOMAIN files' \ DOMAIN files : files'[u] = <<>>

\* C1: with requests served one at a time and no external writer, the file of
\* every upload is the concatenation of its accepted payloads in acceptance
\* order, and the persisted offset is the file's length.
C1_Contiguity ==
    \A u \in DOMAIN db :
        u \notin external =>
            /\ u \in DOMAIN files
            /\ files[u] = accepted[u]
            /\ db[u].offset = Len(files[u])

\* C1 witness: two chunks were accepted on one upload, "a" then "b".
C1_Witness ==
    \E u \in DOMAIN db :
        /\ u \notin external
        /\ accepted[u] = <<"a", "b">>
        /\ files[u] = <<"a", "b">>
        /\ db[u].offset = 2

\* The checks the code makes before the offset check, in the claim's words:
\* the upload is neither expired nor complete, a declared range has
\* start <= end, end is not above total, total is within the limit.
PassesEarlierChecks(r) ==
    LET rng == RangeOf(r)
    IN /\ r.upload_id # Null =>
            /\ now < Get(db[Get(r.upload_id)].created_on) + EXPIRATION_DELTA
            /\ db[Get(r.upload_id)].status = UPLOADING
       /\ Len(r.content_range) = 3 => rng.start <= rng.end
       /\ Len(r.content_range) # 3 => ~config.fail_if_no_header
       /\ rng.end <= rng.total
       /\ config.max_bytes # Null => rng.total <= Get(config.max_bytes)

\* A chunk request on a new upload or on one of the user's own, whose start
\* differs from the record's offset.
StartDiffers(p) ==
    /\ Served(p, "upload")
    /\ Request(p).chunk # Null
    /\ StartsUpload(Request(p)) \/ NamesOwnUpload(Request(p))
    /\ RangeOf(Request(p)).start # RecordOffset(Request(p))

\* C2 as stated: a chunk whose start differs from the record's offset is
\* rejected with 400 "Offsets do not match" carrying the record's offset.
C2_Original ==
    [][\A p \in Procs :
         StartDiffers(p) =>
             Answer(p) = ChunkedUploadErrorOffset(HTTP_400_BAD_REQUEST,
                             "Offsets do not match", RecordOffset(Request(p)))]_vars

\* C2 amended: a chunk whose start differs from the record's offset is never
\* accepted (no record changes, nothing is appended), and when it passes the
\* checks made before the offset check it is rejected with 400 "Offsets do not
\* match" carrying the record's offset.
C2_OffsetMismatchRejected ==
    [][\A p \in Procs :
         StartDiffers(p) =>
             /\ Answer(p).status # HTTP_200_OK
             /\ db' = db
             /\ NothingAppended
             /\ PassesEarlierChecks(Request(p)) =>
                    Answer(p) = ChunkedUploadErrorOffset(HTTP_400_BAD_REQUEST,
                                    "Offsets do not match", RecordOffset(Request(p)))]_vars

\* C2 witness: an accepted chunk (start 0) was sent again to an upload whose
\* offset is 1, and the answer was "Offsets do not match" with offset 1.
C2_Witness ==
    \E p \in Procs :
        /\ pc[p] = "done"
        /\ Get(req[p]).view = "upload"
        /\ Get(req[p]).upload_id # Null
        /\ Get(req[p]).content_range = <<0, 0, 1>>
        /\ Get(resp[p]) = ChunkedUploadErrorOffset(HTTP_400_BAD_REQUEST,
                                                   "Offsets do not match", 1)

\* A chunk request that reaches the measurement of the file (it raised no
\* error before line 257) on an upload whose file is not as long as the
\* declared start.
FindsOtherLength(p) ==
    /\ Served(p, "upload")
    /\ NamesOwnUpload(Request(p))
    /\ UploadView_resolve(Request(p)).error = Null
    /\ UploadView_validate(db[Get(Request(p).upload_id)], Request(p)) = Null
    /\ Len(files[Get(Request(p).upload_id)]) # RangeOf(Request(p)).start

\* C3: a chunk that passes the offset check and then finds the file's length
\* different from its start is rejected with 400 "File is currently being
\* written by another request" carrying the file's length; nothing is
\* appended and no record changes.
C3_ConflictingWriteRejected ==
    [][\A p \in Procs :
         FindsOtherLength(p) =>
             /\ Answer(p) = ChunkedUploadErrorSize(HTTP_400_BAD_REQUEST,
                    "File is currently being written by another request",
                    Len(files[Get(Request(p).upload_id)]))
             /\ files' = files
             /\ db' = db]_vars

\* C3 witness: the upload's offset is 1, its file holds 2 bytes, and a chunk
\* starting at 1 was answered with the conflict error carrying size 2.
C3_Witness ==
    \E p \in Procs :
        /\ pc[p] = "done"
        /\ Get(req[p]).view = "upload"
        /\ Get(resp[p]) = ChunkedUploadErrorSize(HTTP_400_BAD_REQUEST,
               "File is currently being written by another request", 2)
        /\ RangeOf(Get(req[p])).start = 1
        /\ db[Get(Get(req[p]).upload_id)].offset = 1
        /\ Len(files[Get(Get(req[p]).upload_id)]) = 2

\* A completion request for one of the user's own uploads, with an
\* expected_size that is not the file's length.
ExpectsOtherSize(p) ==
    /\ Served(p, "complete")
    /\ NamesOwnUpload(Request(p))
    /\ Request(p).expected_size # <<>>
    /\ ParseInt(Request(p).expected_size) # Some(Len(files[Get(Request(p).upload_id)]))

\* C5: a completion request whose expected_size is supplied and differs from
\* the file's length fails with status 400, carrying the file's length when
\* expected_size is an integer, and leaves status and completed_on unchanged.
C5_CompletionGate ==
    [][\A p \in Procs :
         ExpectsOtherSize(p) =>
             LET u == Get(Request(p).upload_id)
             IN /\ Answer(p).status = HTTP_400_BAD_REQUEST
                /\ ParseInt(Request(p).expected_size) # Null =>
                       Answer(p) = ChunkedUploadErrorSize(HTTP_400_BAD_REQUEST,
                           "Expected file size does not match", Len(files[u]))
                /\ db'[u].status = db[u].status
                /\ db'[u].completed_on = db[u].completed_on]_vars

\* C5 witness: completion of an UPLOADING upload whose file holds 2 bytes was
\* asked with expected_size "1" and answered 400 with size 2; the upload is
\* still UPLOADING.
C5_Witness ==
    \E p \in Procs :
        /\ pc[p] = "done"
        /\ Get(req[p]).view = "complete"
        /\ Get(req[p]).expected_size = <<"1">>
        /\ Get(resp[p]) = ChunkedUploadErrorSize(HTTP_400_BAD_REQUEST,
               "Expected file size does not match", 2)
        /\ db[Get(Get(req[p]).upload_id)].status = UPLOADING
        /\ db[Get(Get(req[p]).upload_id)].completed_on = Null

\* The upload a request names has not reached its expiry time (a request that
\* starts an upload names none).
NotExpired(r) ==
    r.upload_id # Null => now < Get(db[Get(r.upload_id)].created_on) + EXPIRATION_DELTA

AlreadyComplete ==
    ChunkedUploadError(HTTP_400_BAD_REQUEST, "Upload has already been marked as complete")

\* C4 as stated: once an upload is COMPLETE, every chunk request and every
\* completion request for it (here: before its expiry time) is answered with
\* the already-complete error, status 400.
C4_Original ==
    [][\A p \in Procs :
         (/\ Served(p, "upload") \/ Served(p, "complete")
          /\ Served(p, "upload") => Request(p).chunk # Null
          /\ NamesOwnUpload(Request(p))
          /\ NotExpired(Request(p))
          /\ db[Get(Request(p).upload_id)].status = COMPLETE)
             => Answer(p) = AlreadyComplete]_vars

\* C9 as stated: completed_on is null while the upload is UPLOADING, and once
\* it is set no request changes its value.
C9_Original ==
    [][\A u \in DOMAIN db :
         /\ db[u].status = UPLOADING => db[u].completed_on = Null
         /\ (db[u].completed_on # Null /\ u \in DOMAIN db') =>
                db'[u].completed_on = db[u].completed_on]_vars

\* C10 as stated: a chunk whose declared range has start > end, or
\* end >= total, is rejected with status 400 (here: sent to a new upload or to
\* an upload before its expiry time) and nothing is appended.
C10_Original ==
    [][\A p \in Procs :
         (/\ Served(p, "upload")
          /\ Request(p).chunk # Null
          /\ StartsUpload(Request(p)) \/ NamesOwnUpload(Request(p))
          /\ NotExpired(Request(p))
          /\ Len(Request(p).content_range) = 3
          /\ \/ RangeOf(Request(p)).start > RangeOf(Request(p)).end
             \/ RangeOf(Request(p)).end >= RangeOf(Request(p)).total)
             => /\ Answer(p).status = HTTP_400_BAD_REQUEST
                /\ NothingAppended
                /\ db' = db]_vars

\* Worker p has answered 200 to a chunk request carrying at least one byte.
AcceptedChunk(p) ==
    /\ pc[p] = "done"
    /\ Get(req[p]).view = "upload"
    /\ Get(resp[p]).status = HTTP_200_OK
    /\ Get(Get(req[p]).chunk).data # <<>>

\* C6 as stated: of two overlapping chunk requests for the same upload and
\* the same start at most one is accepted, and the file never holds both
\* payloads. (Served one after the other, the second is rejected by the
\* offset check, so two such answers of 200 are answers to overlapping
\* requests.)
C6_Original ==
    \A p, q \in Procs :
        (/\ p # q
         /\ AcceptedChunk(p)
         /\ AcceptedChunk(q)
         /\ Get(resp[p]).upload_id = Get(resp[q]).upload_id
         /\ RangeOf(Get(req[p])).start = RangeOf(Get(req[q])).start)
            => FALSE

\* C7 as stated: whenever no request is between its file append and its
\* record save, the persisted offset of every upload is its file's length.
C7_Original ==
    (\A p \in Procs : pc[p] # "save") =>
        \A u \in DOMAIN db : db[u].offset = Len(files[u])

\* C8 as stated: the persisted status of an upload never changes from
\* COMPLETE back to UPLOADING.
C8_Original ==
    [][\A u \in DOMAIN db :
         (db[u].status = COMPLETE /\ u \in DOMAIN db') => db'[u].status = COMPLETE]_vars

\* C11 as stated: with a maximum upload size configured and no external
\* writer, the file of an upload never holds more bytes than the maximum, and
\* its offset never exceeds it.
C11_Original ==
    config.max_bytes # Null =>
        \A u \in DOMAIN db :
            u \notin external =>
                /\ Len(files[u]) <= Get(config.max_bytes)
                /\ db[u].offset <= Get(config.max_bytes)

Gone == ChunkedUploadError(HTTP_410_GONE, "Upload has expired")

\* C12: a chunk request that continues one of the user's uploads is answered
\* 410 whenever now >= created_on + EXPIRATION_DELTA, the boundary included and
\* also when the upload is COMPLETE; a chunk request that starts a new upload
\* is never answered 410.
C12_ExpiryOnAppend ==
    [][\A p \in Procs :
         (Served(p, "upload") /\ Request(p).chunk # Null) =>
             /\ (/\ NamesOwnUpload(Request(p))
                 /\ now >= Get(db[Get(Request(p).upload_id)].created_on) + EXPIRATION_DELTA)
                    => Answer(p) = Gone
             /\ StartsUpload(Request(p)) => Answer(p).status # HTTP_410_GONE]_vars

\* C12 witness: a chunk for a COMPLETE upload, sent exactly at the upload's
\* expiry time, was answered 410.
C12_Witness ==
    \E p \in Procs :
        /\ pc[p] = "done"
        /\ Get(req[p]).view = "upload"
        /\ Get(resp[p]) = Gone
        /\ db[Get(Get(req[p]).upload_id)].status = COMPLETE
        /\ now = Get(db[Get(Get(req[p]).upload_id)].created_on) + EXPIRATION_DELTA

\* A request by an authenticated user that names an upload of another user.
NamesOthersUpload(r) ==
    /\ is_authenticated(r.user)
    /\ r.upload_id # Null
    /\ Get(r.upload_id) \in DOMAIN db
    /\ db[Get(r.upload_id)].user # Some(r.user)

\* C13: a chunk or completion request naming another user's upload is
\* answered 404 and leaves every record and file as it was; a request of an
\* unauthenticated user is answered 403 and neither reads nor creates
\* anything (records, files and the id generator are untouched); a request
\* changes the record or the file only of an upload its user owns.
C13_CallerScope ==
    [][\A p \in Procs :
         (Served(p, "upload") \/ Served(p, "complete")) =>
             /\ ~is_authenticated(Request(p).user) =>
                    /\ Answer(p) = ChunkedUploadError(HTTP_403_FORBIDDEN,
                                       "Authentication credentials were not provided")
                    /\ db' = db /\ files' = files /\ nextId' = nextId
             /\ (/\ Served(p, "upload") => Request(p).chunk # Null
                 /\ NamesOthersUpload(Request(p))) =>
                    /\ Answer(p).status = HTTP_404_NOT_FOUND
                    /\ db' = db /\ files' = files
             /\ \A u \in DOMAIN db :
                    (db'[u] # db[u] \/ files'[u] # files[u]) =>
                        db[u].user = Some(Request(p).user)]_vars

\* C13 witness: bob asked to complete an upload of alice that holds one byte,
\* and was answered 404; the upload is still UPLOADING.
C13_Witness ==
    \E p \in Procs :
        /\ pc[p] = "done"
        /\ Get(req[p]).view = "complete"
        /\ Get(req[p]).user = "bob"
        /\ Get(resp[p]).status = HTTP_404_NOT_FOUND
        /\ Get(Get(req[p]).upload_id) \in DOMAIN db
        /\ db[Get(Get(req[p]).upload_id)].user = Some("alice")
        /\ db[Get(Get(req[p]).upload_id)].offset = 1
        /\ db[Get(Get(req[p]).upload_id)].status = UPLOADING

\* A step in which the delete_expired_uploads command runs (without
\* --interactive).
Sweeps == stdout = Null /\ stdout' # Null

\* The records a sweep at this moment has to delete, in the claim's words.
OlderThanDelta == {u \in DOMAIN db : Get(db[u].created_on) < now - config.command_delta}

\* C14: a non-interactive sweep deletes exactly the records with
\* created_on < now - expiration delta, UPLOADING and COMPLETE alike, and
\* leaves every other record and its file untouched.
C14_SweepDeterminism ==
    [][Sweeps =>
         /\ DOMAIN db' = DOMAIN db \ OlderThanDelta
         /\ \A u \in DOMAIN db' :
                /\ db'[u] = db[u]
                /\ u \in DOMAIN files => (u \in DOMAIN files' /\ files'[u] = files[u])]_vars

\* C14 witness: with a delta of zero, the sweep deleted upload 1, created
\* earlier, and kept upload 2, created at the moment of the sweep.
C14_Witness ==
    /\ stdout # Null
    /\ config.command_delta = 0
    /\ Get(stdout).deleted = <<1>>
    /\ DOMAIN db = {2}
    /\ db[2].created_on = Some(now)

\* C15 as stated: whenever a record is deleted, by the sweep or by a call of
\* delete, its file does not exist afterwards.
C15_Original ==
    [][\A u \in DOMAIN db \ DOMAIN db' : u \notin DOMAIN files']_vars

\* C15 amended: a record deleted by the sweep, or by delete() with
\* delete_file left True, is gone together with its file; delete() with
\* delete_file False removes the record and leaves every file in place.
C15_DeleteReleasesFile ==
    [][\A u \in DOMAIN db \ DOMAIN db' :
         /\ (Sweeps \/ delete(u, TRUE)) => (u \notin DOMAIN db' /\ u \notin DOMAIN files')
         /\ delete(u, FALSE) => files' = files]_vars

\* C15 witness: the sweep deleted upload 1, which held an accepted chunk;
\* neither its record nor its file exists.
C15_Witness ==
    /\ stdout # Null
    /\ 1 \in DOMAIN accepted
    /\ accepted[1] # <<>>
    /\ Len(Get(stdout).deleted) = 1
    /\ Get(stdout).deleted[1] = 1
    /\ 1 \notin DOMAIN db
    /\ 1 \notin DOMAIN files

\* C16: the filename of a new upload is the name of its first chunk; no chunk
\* or completion request changes the filename or the upload_id of an existing
\* record, whatever name its chunk carries; an accepted continuation returns
\* the upload_id it was given.
C16_FilenameFixed ==
    [][\A p \in Procs :
         (Served(p, "upload") \/ Served(p, "complete")) =>
             /\ \A u \in DOMAIN db :
                    /\ db'[u].filename = db[u].filename
                    /\ db'[u].upload_id = db[u].upload_id
             /\ \A u \in DOMAIN db' \ DOMAIN db :
                    /\ db'[u].filename = Get(Request(p).chunk).name
                    /\ db'[u].upload_id = u
                    /\ Answer(p).upload_id = Some(u)
             /\ (/\ Served(p, "upload")
                 /\ Answer(p).status = HTTP_200_OK
                 /\ Request(p).upload_id # Null) =>
                    Answer(p).upload_id = Request(p).upload_id]_vars

\* C16 witness: a chunk named "ignored-name.txt" was accepted as the second
\* chunk of an upload, whose filename is still "initial-name.txt".
C16_Witness ==
    \E p \in Procs :
        /\ pc[p] = "done"
        /\ Get(req[p]).view = "upload"
        /\ Get(req[p]).upload_id # Null
        /\ Get(Get(req[p]).chunk).name = "ignored-name.txt"
        /\ Get(resp[p]).status = HTTP_200_OK
        /\ Get(resp[p]).upload_id = Get(req[p]).upload_id
        /\ db[Get(Get(req[p]).upload_id)].filename = "initial-name.txt"
        /\ db[Get(Get(req[p]).upload_id)].offset = 2

\* C17: a successful completion reports size_checked = true exactly when an
\* expected_size was supplied, and then the file's length was compared with
\* it and equalled it; it reports false exactly when none was supplied. An
\* expected_size that is not an integer is answered 400 and the record is
\* left as it was.
C17_SizeChecked ==
    [][\A p \in Procs :
         (Served(p, "complete") /\ NamesOwnUpload(Request(p))) =>
             LET u == Get(Request(p).upload_id)
                 supplied == Request(p).expected_size # <<>>
                 parsed == ParseInt(Request(p).expected_size)
             IN /\ Answer(p).status = HTTP_200_OK =>
                       /\ Answer(p).size_checked = Some(supplied)
                       /\ supplied => parsed = Some(Len(files[u]))
                /\ (supplied /\ parsed = Null) =>
                       /\ Answer(p) = ChunkedUploadError(HTTP_400_BAD_REQUEST,
                              "Invalid value for expected_size, an integer is required")
                       /\ db' = db]_vars

\* C17 witness: the completion of an upload holding one byte, asked with
\* expected_size "01", was answered 200 with size_checked true.
C17_Witness ==
    \E p \in Procs :
        /\ pc[p] = "done"
        /\ Get(req[p]).view = "complete"
        /\ Get(req[p]).expected_size = <<"0", "1">>
        /\ Get(resp[p]).status = HTTP_200_OK
        /\ Get(resp[p]).size_checked = Some(TRUE)
        /\ Len(files[Get(Get(req[p]).upload_id)]) = 1
        /\ db[Get(Get(req[p]).upload_id)].status = COMPLETE

OffsetsDoNotMatch(o) ==
    ChunkedUploadErrorOffset(HTTP_400_BAD_REQUEST, "Offsets do not match", o)

BeingWritten(size) ==
    ChunkedUploadErrorSize(HTTP_400_BAD_REQUEST,
                           "File is currently being written by another request", size)

\* Worker q serves a chunk request for the upload named by the chunk request
\* that worker p has just answered: the client's next request.
RetriesAfter(p, q) ==
    /\ p # q
    /\ pc[p] = "done"
    /\ Get(req[p]).view = "upload"
    /\ Served(q, "upload")
    /\ Request(q).chunk # Null
    /\ Request(q).upload_id = Get(req[p]).upload_id

\* The retry starts at start, its byte length matches its declared range,
\* the range has start <= end < total, and its upload is neither expired nor
\* complete.
ProperRetry(r, start) ==
    /\ RangeOf(r).start = start
    /\ Len(Get(r.chunk).data) = RangeOf(r).end - RangeOf(r).start + 1
    /\ RangeOf(r).start <= RangeOf(r).end
    /\ RangeOf(r).end < RangeOf(r).total
    /\ NotExpired(r)
    /\ r.upload_id # Null => db[Get(r.upload_id)].status = UPLOADING

\* C18 as stated: after "Offsets do not match" carrying offset o, or the
\* conflicting-write error carrying size s, the retry that starts at the
\* carried value is accepted.
C18_Original ==
    [][\A p, q \in Procs :
         (/\ RetriesAfter(p, q)
          /\ \/ \E o \in 0..MaxSteps :
                   Get(resp[p]) = OffsetsDoNotMatch(o) /\ ProperRetry(Request(q), o)
             \/ \E size \in 0..MaxSteps :
                   Get(resp[p]) = BeingWritten(size) /\ ProperRetry(Request(q), size))
             => Answer(q).status = HTTP_200_OK]_vars

\* C18 amended: after "Offsets do not match" carrying o, the retry that
\* starts at o is accepted, and the offset advances by its length, provided
\* the upload's file holds exactly o bytes; after the conflicting-write error
\* carrying size s, the retry that starts at s is rejected with "Offsets do
\* not match" carrying the record's unchanged offset, and nothing is written.
C18_RetryProgress ==
    [][\A p, q \in Procs :
         RetriesAfter(p, q) =>
             /\ \A o \in 0..MaxSteps :
                    (/\ Get(resp[p]) = OffsetsDoNotMatch(o)
                     /\ ProperRetry(Request(q), o)
                     /\ Request(q).upload_id # Null =>
                            Len(files[Get(Request(q).upload_id)]) = o)
                        => /\ Answer(q).status = HTTP_200_OK
                           /\ Answer(q).offset = Some(o + Len(Get(Request(q).chunk).data))
             /\ \A size \in 0..MaxSteps :
                    (/\ Get(resp[p]) = BeingWritten(size)
                     /\ ProperRetry(Request(q), size))
                        => /\ Answer(q) =
                                  OffsetsDoNotMatch(db[Get(Request(q).upload_id)].offset)
                           /\ db' = db
                           /\ files' = files]_vars

\* C18 witness: a chunk starting at 0 was answered "Offsets do not match"
\* with offset 1, and the retry starting at 1 was accepted: offset 2.
C18_Witness ==
    \E p, q \in Procs :
        /\ pc[p] = "done"
        /\ pc[q] = "done"
        /\ Get(resp[p]) = OffsetsDoNotMatch(1)
        /\ RangeOf(Get(req[q])).start = 1
        /\ Get(req[q]).upload_id = Get(req[p]).upload_id
        /\ Get(resp[q]).status = HTTP_200_OK
        /\ Get(resp[q]).offset = Some(2)

\* Whether chunk request r violates condition c, in the claim's words and
\* evaluated before the request is served.
Violates(r, c) ==
    LET named == r.upload_id # Null
        u == Get(r.upload_id)
        found == named /\ u \in DOMAIN db /\ db[u].user = Some(r.user)
        header == Len(r.content_range) = 3
        size == Len(Get(r.chunk).data)
        start == IF header THEN r.content_range[1] ELSE 0
        end == IF header THEN r.content_range[2] ELSE size - 1
        total == IF header THEN r.content_range[3] ELSE size
    IN CASE c = "not_authenticated" -> r.user \notin Users
         [] c = "no_chunk" -> r.chunk = Null
         [] c = "not_found" -> named /\ ~found
         [] c = "expired" -> found /\ now >= Get(db[u].created_on) + EXPIRATION_DELTA
         [] c = "complete" -> found /\ db[u].status = COMPLETE
         [] c = "start_after_end" -> r.chunk # Null /\ header /\ start > end
         [] c = "header_missing" -> ~header /\ config.fail_if_no_header
         [] c = "end_above_total" -> r.chunk # Null /\ end > total
         [] c = "size_limit" ->
                r.chunk # Null /\ config.max_bytes # Null /\ total > Get(config.max_bytes)
         [] c = "offset_mismatch" ->
                /\ r.chunk # Null
                /\ named => found
                /\ start # (IF named THEN db[u].offset ELSE 0)
         [] c = "chunk_size" -> r.chunk # Null /\ size # end - start + 1
         [] c = "conflicting_write" ->
                /\ r.chunk # Null
                /\ named => found
                /\ start # (IF named THEN Len(files[u]) ELSE 0)

\* The fixed order of the checks.
CheckOrder ==
    <<"not_authenticated", "no_chunk", "not_found", "expired", "complete",
      "start_after_end", "header_missing", "end_above_total", "size_limit",
      "offset_mismatch", "chunk_size", "conflicting_write">>

\* The answer of each check.
ErrorStatus(c) ==
    CASE c = "not_authenticated" -> HTTP_403_FORBIDDEN
      [] c = "not_found" -> HTTP_404_NOT_FOUND
      [] c = "expired" -> HTTP_410_GONE
      [] OTHER -> HTTP_400_BAD_REQUEST

ErrorDetail(c) ==
    CASE c = "not_authenticated" -> "Authentication credentials were not provided"
      [] c = "no_chunk" -> "No chunk file was submitted"
      [] c = "not_found" -> "Not Found"
      [] c = "expired" -> "Upload has expired"
      [] c = "complete" -> "Upload has already been marked as complete"
      [] c = "start_after_end" -> "The content range start must be lower than end"
      [] c = "header_missing" -> "Error in request headers"
      [] c = "end_above_total" -> "End offset must be lower than total size"
      [] c = "size_limit" -> "Size of file exceeds the limit"
      [] c = "offset_mismatch" -> "Offsets do not match"
      [] c = "chunk_size" -> "File size doesn't match headers"
      [] c = "conflicting_write" -> "File is currently being written by another request"

\* The first condition, from position i of CheckOrder on, that r violates;
\* "none" when it violates none of them.
RECURSIVE FirstViolated(_, _)
FirstViolated(r, i) ==
    IF i > Len(CheckOrder) THEN "none"
    ELSE IF Violates(r, CheckOrder[i]) THEN CheckOrder[i]
    ELSE FirstViolated(r, i + 1)

\* C19: the error of a chunk request is that of the first check it fails, in
\* the order: not authenticated, no chunk, not found, expired, already
\* complete, range (start > end, header missing, end > total), size limit,
\* offset mismatch, chunk size, conflicting write. A request that fails one
\* appends nothing and changes no record; one that fails none is accepted.
C19_ValidationOrder ==
    [][\A p \in Procs :
         Served(p, "upload") =>
             LET first == FirstViolated(Request(p), 1)
             IN IF first = "none"
                THEN Answer(p).status = HTTP_200_OK
                ELSE /\ Answer(p).status = ErrorStatus(first)
                     /\ Answer(p).detail = ErrorDetail(first)
                     /\ NothingAppended
                     /\ db' = db]_vars

\* C19 witness: a chunk for a COMPLETE upload past its expiry time, with a
\* total above the limit, a start that is not the offset and a byte length
\* that is not the declared one, was answered 410.
C19_Witness ==
    \E p \in Procs :
        /\ pc[p] = "done"
        /\ Get(req[p]).view = "upload"
        /\ Get(resp[p]) = Gone
        /\ Violates(Get(req[p]), "complete")
        /\ Violates(Get(req[p]), "size_limit")
        /\ Violates(Get(req[p]), "offset_mismatch")
        /\ Violates(Get(req[p]), "chunk_size")

\* C20: a chunk request answered with an error leaves the record store as it
\* was (no record changes, none appears) and the content of every file as it
\* was.
C20_RejectionChangesNothing ==
    [][\A p \in Procs :
         (Served(p, "upload") /\ Answer(p).status # HTTP_200_OK) =>
             /\ db' = db
             /\ \A u \in DOMAIN files : u \in DOMAIN files' /\ files'[u] = files[u]]_vars

\* C20 witness: a chunk of the wrong length for an upload that holds one
\* accepted byte was answered "File size doesn't match headers"; the record's
\* offset is 1 and the file holds that byte.
C20_Witness ==
    \E p \in Procs :
        /\ pc[p] = "done"
        /\ Get(req[p]).view = "upload"
        /\ Get(resp[p]) = ChunkedUploadError(HTTP_400_BAD_REQUEST,
                                             "File size doesn't match headers")
        /\ Get(req[p]).upload_id # Null
        /\ db[Get(Get(req[p]).upload_id)].offset = 1
        /\ db[Get(Get(req[p]).upload_id)].status = UPLOADING
        /\ files[Get(Get(req[p]).upload_id)] = accepted[Get(Get(req[p]).upload_id)]
        /\ Len(files[Get(Get(req[p]).upload_id)]) = 1

\* A chunk without range information (no Content-Range header, or one the
\* pattern does not match) for a new upload or for one of the user's own
\* uploads that is neither expired nor complete.
SendsNoRange(p) ==
    /\ Served(p, "upload")
    /\ Request(p).chunk # Null
    /\ Len(Request(p).content_range) # 3
    /\ StartsUpload(Request(p)) \/ NamesOwnUpload(Request(p))
    /\ NotExpired(Request(p))
    /\ Request(p).upload_id # Null => db[Get(Request(p).upload_id)].status = UPLOADING

SizeExceedsLimit ==
    ChunkedUploadError(HTTP_400_BAD_REQUEST, "Size of file exceeds the limit")

\* C21 as stated: with the header optional, a chunk without range
\* information for an upload whose offset is greater than 0 is rejected with
\* "Offsets do not match".
C21_Original ==
    [][\A p \in Procs :
         (/\ SendsNoRange(p)
          /\ ~config.fail_if_no_header
          /\ RecordOffset(Request(p)) > 0)
             => Answer(p) = OffsetsDoNotMatch(RecordOffset(Request(p)))]_vars

\* C21 amended: with the header optional, a chunk of size bytes without
\* range information is treated as (0, size-1, size): it is rejected with
\* "Size of file exceeds the limit" when size is above a configured maximum,
\* otherwise with "Offsets do not match" when the upload's offset is greater
\* than 0, and it is accepted, the offset becoming size, only on an upload
\* whose offset is 0. With the header required it is answered 400 "Error in
\* request headers", nothing is appended and no record changes.
C21_ImplicitRange ==
    [][\A p \in Procs :
         SendsNoRange(p) =>
             LET size == Len(Get(Request(p).chunk).data)
                 offset == RecordOffset(Request(p))
                 above == config.max_bytes # Null /\ size > Get(config.max_bytes)
             IN IF config.fail_if_no_header
                THEN /\ Answer(p) = ChunkedUploadError(HTTP_400_BAD_REQUEST,
                                                       "Error in request headers")
                     /\ NothingAppended
                     /\ db' = db
                ELSE /\ above => Answer(p) = SizeExceedsLimit
                     /\ (~above /\ offset > 0) => Answer(p) = OffsetsDoNotMatch(offset)
                     /\ Answer(p).status = HTTP_200_OK =>
                            (offset = 0 /\ Answer(p).offset = Some(size))]_vars

\* C21 witness: with the header optional, a chunk of one byte without a
\* header, for an upload whose offset is 1 and with max_bytes 1, was answered
\* "Offsets do not match" with offset 1.
C21_Witness ==
    \E p \in Procs :
        /\ pc[p] = "done"
        /\ ~config.fail_if_no_header
        /\ config.max_bytes = Some(1)
        /\ Get(req[p]).view = "upload"
        /\ Get(req[p]).content_range = Null
        /\ Get(req[p]).chunk # Null
        /\ Len(Get(Get(req[p]).chunk).data) = 1
        /\ Get(resp[p]) = OffsetsDoNotMatch(1)


\* The step reads one answer at the prompt of an interactive sweep.
ReadsAnswer == command # Null /\ command' # Null /\ command' # command

\* The step ends the loop of an interactive sweep and writes its summary.
EndsSweep == command # Null /\ command' = Null

\* The ids of the records the running sweep selected.
SelectedIds(c) == {c.qs[k].upload_id : k \in 1..Len(c.qs)}

\* C22: in an interactive sweep an answer that is neither yes nor no (the
\* answer as lower-cased by the command) leaves the prompt on the same record
\* and changes nothing; "n" moves on to the next record and neither deletes
\* nor counts the current one; "y" deletes the record and its file, lists its
\* id and moves on.  When the loop ends, the listed ids have no duplicates and
\* are exactly the selected records no longer stored, the two counts sum to
\* the length of the list, and the summary written carries both.
C22_InteractiveSweep ==
    [][/\ ReadsAnswer =>
             LET c == Get(command)
                 c2 == Get(command')
                 a == Get(c2.answer)
                 u == c.qs[c.i].upload_id
             IN /\ a \notin {"y", "n"} =>
                      /\ c2.i = c.i /\ c2.count = c.count /\ c2.deleted = c.deleted
                      /\ db' = db /\ files' = files
                /\ a = "n" =>
                      /\ c2.i = c.i + 1 /\ c2.count = c.count /\ c2.deleted = c.deleted
                      /\ db' = db /\ files' = files
                /\ a = "y" =>
                      /\ c2.i = c.i + 1 /\ c2.deleted = Append(c.deleted, u)
                      /\ u \in DOMAIN db /\ u \notin DOMAIN db' /\ u \notin DOMAIN files'
                      /\ \A v \in DOMAIN db \ {u} : v \in DOMAIN db' /\ db'[v] = db[v]
       /\ EndsSweep =>
             LET c == Get(command)
                 listed == {c.deleted[k] : k \in 1..Len(c.deleted)}
             IN /\ Cardinality(listed) = Len(c.deleted)
                /\ listed = SelectedIds(c) \ DOMAIN db
                /\ c.count[COMPLETE] + c.count[UPLOADING] = Len(c.deleted)
                /\ stdout' = Some([count |-> c.count, deleted |-> c.deleted])
      ]_vars

\* An interactive sweep selected both uploads, was answered "n" for upload 1
\* and "y" for upload 2, and has written its summary.
C22_Witness ==
    /\ stdout # Null
    /\ Get(stdout).deleted = <<2>>
    /\ Get(stdout).count[COMPLETE] = 1
    /\ Get(stdout).count[UPLOADING] = 0
    /\ DOMAIN db = {1}
    /\ DOMAIN files = {1}


\* C23: every file that was allocated belongs to a stored upload record; a
\* first chunk that is rejected leaves no file behind.
C23_Original == \A u \in DOMAIN files : u \in DOMAIN db


\* C24: while the summary of a sweep stands, no record is stored and no file
\* exists under an upload_id the sweep lists as deleted, whatever the requests
\* in progress do.
C24_Original ==
    stdout # Null =>
        \A k \in 1..Len(Get(stdout).deleted) :
            /\ Get(stdout).deleted[k] \notin DOMAIN db
            /\ Get(stdout).deleted[k] \notin DOMAIN files


\* Upload u has reached its expiry time.
PastExpiry(u) == now >= Get(db[u].created_on) + EXPIRATION_DELTA

\* C25 as stated: once an upload has reached its expiry time, no chunk or
\* completion request changes its record, so it never becomes COMPLETE
\* afterwards.
C25_Original ==
    [][\A p \in Procs :
         (Served(p, "upload") \/ Served(p, "complete")) =>
             \A u \in DOMAIN db :
                 PastExpiry(u) => u \in DOMAIN db' /\ db'[u] = db[u]]_vars

\* C25: once an upload has reached its expiry time, no chunk request changes
\* its record, and no request changes its file; a completion request is not
\* tested against the expiry and changes the record in status and
\* completed_on only, to COMPLETE and now.
C25_ExpiredContentFrozen ==
    [][\A p \in Procs :
         (Served(p, "upload") \/ Served(p, "complete")) =>
             \A u \in DOMAIN db :
                 PastExpiry(u) =>
                     /\ u \in DOMAIN db'
                     /\ u \in DOMAIN files' /\ files'[u] = files[u]
                     /\ Served(p, "upload") => db'[u] = db[u]
                     /\ db'[u] # db[u] =>
                            db'[u] = [db[u] EXCEPT !.status = COMPLETE,
                                                   !.completed_on = Some(now)]]_vars

\* C25 witness: an upload was completed at or after its expiry time, and two
\* requests have been served since it expired.
C25_Witness ==
    \E u \in DOMAIN db :
        /\ db[u].status = COMPLETE
        /\ Get(db[u].completed_on) >= Get(db[u].created_on) + EXPIRATION_DELTA
        /\ files[u] # <<>>
        /\ \E p \in Procs :
               /\ pc[p] = "done"
               /\ Get(req[p]).view = "upload"
               /\ Get(req[p]).upload_id = Some(u)
               /\ Get(resp[p]) = Gone

====
